---- MODULE Spec2Model ----
(***************************************************************************)
(* The retrieval-to-answer pipeline of ted-rag: lib/rag.ts                 *)
(* (src/unnamed/part_001) behind the route app/api/prompt/route.ts.        *)
(*                                                                         *)
(* Text is modelled by TLA+ strings; TLC evaluates Len, SubSeq and \o on   *)
(* them, so the string functions below work character by character as the  *)
(* JavaScript ones do.  A similarity score s is represented by the integer  *)
(* 100*s (0.12 is 12).  An optional value (a metadata key that may be      *)
(* absent, speaker_1?, topics?) is <<>> when undefined and <<v>> when set. *)
(* The topics key of the index metadata is <<>> (absent), <<"str", s, <<>>>>*)
(* (a string s) or <<"list", "", l>> (an array l of strings).              *)
(* The typographic apostrophe of the refusal sentence and the ellipsis are *)
(* written in ASCII.                                                       *)
(***************************************************************************)
EXTENDS Integers, Sequences, FiniteSets, TLC

VARIABLES
  env,            \* the names of the environment variables that are set
  calls,          \* the calls made to the external services, in order
  pc,             \* where the request stands
  question,       \* POST: the trimmed question
  modeRaw,        \* POST: body.mode
  requestedMode,  \* answerQuestion: requestedMode
  qres,           \* retrieve: the matches of the index reply
  matches,        \* answerQuestion: matches
  maxTalks,       \* buildCandidates: maxTalks
  cands,          \* answerQuestion: cands
  context,        \* answerQuestion: publicContext
  mode,           \* answerQuestion: mode
  block,          \* buildCandidatesBlock: topics and evidence per candidate
  userPrompt,     \* answerQuestion: userPrompt
  rawAnswer,      \* the text callModel returns
  response,       \* answerQuestion: response
  status,         \* the HTTP status of the reply, 0 while there is none
  error,          \* the error message of the reply
  clipText,       \* clip: text
  clipMax,        \* clip: maxChars
  clipped,        \* clip: the value returned
  reqs            \* the requests in flight together, each with its own locals

vars == <<env, calls, pc, question, modeRaw, requestedMode, qres, matches,
          maxTalks, cands, context, mode, block, userPrompt, rawAnswer,
          response, status, error, clipText, clipMax, clipped, reqs>>

\* what belongs to clip alone and to the requests in flight together
aside == <<clipText, clipMax, clipped, reqs>>

(***************************************************************************)
(* JavaScript string primitives                                            *)
(***************************************************************************)
Char(s, i) == SubSeq(s, i, i)

WhiteSpace == {" ", "\n", "\t", "\r"}

RECURSIVE trimStart(_)
trimStart(s) ==
  IF Len(s) > 0 /\ Char(s, 1) \in WhiteSpace
  THEN trimStart(SubSeq(s, 2, Len(s)))
  ELSE s

RECURSIVE trimEnd(_)
trimEnd(s) ==
  IF Len(s) > 0 /\ Char(s, Len(s)) \in WhiteSpace
  THEN trimEnd(SubSeq(s, 1, Len(s) - 1))
  ELSE s

trim(s) == trimEnd(trimStart(s))

RECURSIVE indexOf(_, _, _)
indexOf(s, c, i) ==
  IF i > Len(s) THEN 0
  ELSE IF Char(s, i) = c THEN i
  ELSE indexOf(s, c, i + 1)

RECURSIVE split(_, _)
split(s, sep) ==
  LET i == indexOf(s, sep, 1)
  IN  IF i = 0 THEN <<s>>
      ELSE <<SubSeq(s, 1, i - 1)>> \o split(SubSeq(s, i + 1, Len(s)), sep)

includes(s, t) ==
  \E i \in 1..(Len(s) - Len(t) + 1) : SubSeq(s, i, i + Len(t) - 1) = t

UpperCase == "ABCDEFGHIJKLMNOPQRSTUVWXYZ"
LowerCase == "abcdefghijklmnopqrstuvwxyz"

lowerChar(c) ==
  LET i == indexOf(UpperCase, c, 1)
  IN  IF i = 0 THEN c ELSE Char(LowerCase, i)

RECURSIVE toLowerCase(_)
toLowerCase(s) ==
  IF s = "" THEN ""
  ELSE lowerChar(Char(s, 1)) \o toLowerCase(SubSeq(s, 2, Len(s)))

RECURSIVE join(_, _)
join(seq, sep) ==
  IF Len(seq) = 0 THEN ""
  ELSE IF Len(seq) = 1 THEN seq[1]
  ELSE seq[1] \o sep \o join(Tail(seq), sep)

\* xs.map(trim).filter(Boolean): trim every string, drop the empty ones
RECURSIVE trimmedNonEmpty(_)
trimmedNonEmpty(seq) ==
  IF Len(seq) = 0 THEN <<>>
  ELSE LET t == trim(Head(seq))
       IN  (IF t = "" THEN <<>> ELSE <<t>>) \o trimmedNonEmpty(Tail(seq))

\* a ?? b on optional values
nullish(a, b) == IF a = <<>> THEN b ELSE a

(***************************************************************************)
(* Configuration                                                           *)
(***************************************************************************)
EnvNames == {"LLMOD_API_KEY", "PINECONE_API_KEY", "PINECONE_INDEX"}

min_score == 12
CandidateCap == 8
TitleCount == 3
FALLBACK == "I don't know based on the provided TED data."

(***************************************************************************)
(* retrieve: the loop over the index reply and the final sort              *)
(***************************************************************************)
\* a sort that puts x before the elements of equal score
RECURSIVE insertBeforeEqual(_, _)
insertBeforeEqual(sorted, x) ==
  IF Len(sorted) = 0 THEN <<x>>
  ELSE IF Head(sorted).score > x.score
       THEN <<Head(sorted)>> \o insertBeforeEqual(Tail(sorted), x)
       ELSE <<x>> \o sorted

\* out.sort((a, b) => b.score - a.score), a stable sort: x goes after every
\* element whose score is at least its own
RECURSIVE insertByScore(_, _)
insertByScore(sorted, x) ==
  IF Len(sorted) = 0 THEN <<x>>
  ELSE IF Head(sorted).score >= x.score
       THEN <<Head(sorted)>> \o insertByScore(Tail(sorted), x)
       ELSE <<x>> \o sorted

RECURSIVE sortByScoreDesc(_)
sortByScoreDesc(seq) ==
  IF Len(seq) = 0 THEN <<>>
  ELSE insertByScore(sortByScoreDesc(SubSeq(seq, 1, Len(seq) - 1)), seq[Len(seq)])

\* typeof m.score === "number" ? m.score : 0
itemScore(m) == IF m.score = <<>> THEN 0 ELSE m.score[1]

\* the topics of a match: a list is kept as it is, a string is split on
\* commas, trimmed and stripped of empty pieces, anything else is undefined
matchTopics(t) ==
  IF t = <<>> THEN <<>>
  ELSE IF t[1] = "list" THEN <<t[3]>>
  ELSE <<trimmedNonEmpty(split(t[2], ","))>>

toMatch(m) ==
  LET md == m.metadata
  IN  [talk_id   |-> nullish(md.talk_id, nullish(md.id, <<"">>))[1],
       title     |-> nullish(md.title, <<"">>)[1],
       speaker_1 |-> IF md.speaker_1 = <<>> \/ md.speaker_1 = <<"">>
                     THEN <<>> ELSE md.speaker_1,
       topics    |-> matchTopics(md.topics),
       chunk     |-> nullish(md.chunk, nullish(md.text, <<"">>))[1],
       score     |-> itemScore(m)]

keepItem(m) ==
  /\ ~(itemScore(m) < min_score)
  /\ LET r == toMatch(m)
     IN  ~(r.talk_id = "" \/ r.title = "" \/ r.chunk = "")

RECURSIVE collectMatches(_)
collectMatches(items) ==
  IF Len(items) = 0 THEN <<>>
  ELSE (IF keepItem(Head(items)) THEN <<toMatch(Head(items))>> ELSE <<>>)
         \o collectMatches(Tail(items))

retrieveMatches(items) == sortByScoreDesc(collectMatches(items))

(***************************************************************************)
(* detectMode and the mode decision of answerQuestion                      *)
(***************************************************************************)
\* the looser detection: any "exactly 3" with "title", any "title" with "speaker"
detectModeLoose(q0) ==
  LET q == toLowerCase(q0)
  IN  IF includes(q, "exactly 3") /\ includes(q, "title") THEN "title_list"
      ELSE IF \/ includes(q, "provide the title and speaker")
              \/ (includes(q, "title") /\ includes(q, "speaker"))
      THEN "title_speaker"
      ELSE "general"

detectMode(q0) ==
  LET q == toLowerCase(q0)
  IN  IF /\ (includes(q, "exactly 3") \/ includes(q, "exactly three"))
         /\ (includes(q, "titles") \/ includes(q, "title"))
      THEN "title_list"
      ELSE IF \/ includes(q, "title and speaker")
              \/ includes(q, "provide the title and speaker")
              \/ includes(q, "provide title and speaker")
              \/ includes(q, "title & speaker")
      THEN "title_speaker"
      ELSE "general"

\* route.ts: isMode(modeRaw) ? modeRaw : undefined
isMode(x) == x \in {<<"qa">>, <<"title_list">>, <<"title_speaker">>}

routeMode(raw) == IF isMode(raw) THEN raw ELSE <<>>

\* a decision that lets the detection run for the "qa" tag
resolveModeDetectingOnQa(q, requested) ==
  IF requested = <<"title_list">> THEN "title_list"
  ELSE IF requested = <<"title_speaker">> THEN "title_speaker"
  ELSE detectMode(q)

resolveMode(q, requested) ==
  IF requested = <<"title_list">> THEN "title_list"
  ELSE IF requested = <<"title_speaker">> THEN "title_speaker"
  ELSE IF requested = <<"qa">> THEN "general"
  ELSE detectMode(q)

(***************************************************************************)
(* buildCandidates                                                         *)
(***************************************************************************)
Min(a, b) == IF a < b THEN a ELSE b

slice(seq, n) == SubSeq(seq, 1, Min(n, Len(seq)))

\* the keys of the Map, in the order of their first appearance
RECURSIVE groupKeys(_, _)
groupKeys(ms, seen) ==
  IF Len(ms) = 0 THEN seen
  ELSE groupKeys(Tail(ms),
                 IF \E i \in 1..Len(seen) : seen[i] = Head(ms).talk_id
                 THEN seen ELSE Append(seen, Head(ms).talk_id))

groupOf(ms, id) == SelectSeq(ms, LAMBDA m : m.talk_id = id)

EvidenceSeparator == "\n\n---\n\n"

chunksOf(ms) == [i \in 1..Len(ms) |-> ms[i].chunk]

\* a candidate that merges three snippets instead of two
candidateOfThreeSnippets(group) ==
  LET arr  == sortByScoreDesc(group)
      best == arr[1]
  IN  [best EXCEPT !.chunk = join(chunksOf(slice(arr, 3)), EvidenceSeparator)]

candidateOf(group) ==
  LET arr  == sortByScoreDesc(group)
      best == arr[1]
  IN  [best EXCEPT !.chunk = join(chunksOf(slice(arr, 2)), EvidenceSeparator)]

\* the loop over grouped.values(), left as soon as maxTalks candidates exist
RECURSIVE candidateLoop(_, _, _, _)
candidateLoop(ms, keys, candidates, maxT) ==
  IF Len(keys) = 0 THEN candidates
  ELSE LET next == Append(candidates, candidateOf(groupOf(ms, Head(keys))))
       IN  IF Len(next) >= maxT THEN next
           ELSE candidateLoop(ms, Tail(keys), next, maxT)

\* the aggregation without the final slice(0, maxTalks)
buildCandidatesUnsliced(ms, maxT) ==
  sortByScoreDesc(candidateLoop(ms, groupKeys(ms, <<>>), <<>>, maxT))

buildCandidates(ms, maxT) ==
  slice(sortByScoreDesc(candidateLoop(ms, groupKeys(ms, <<>>), <<>>, maxT)), maxT)

(***************************************************************************)
(* cleanTopicList, clip, buildCandidatesBlock                              *)
(***************************************************************************)
RECURSIVE stripLeading(_, _)
stripLeading(s, cs) ==
  IF Len(s) > 0 /\ Char(s, 1) \in cs THEN stripLeading(SubSeq(s, 2, Len(s)), cs)
  ELSE s

RECURSIVE stripTrailing(_, _)
stripTrailing(s, cs) ==
  IF Len(s) > 0 /\ Char(s, Len(s)) \in cs
  THEN stripTrailing(SubSeq(s, 1, Len(s) - 1), cs)
  ELSE s

RECURSIVE splitAll(_, _)
splitAll(seq, sep) ==
  IF Len(seq) = 0 THEN <<>>
  ELSE split(Head(seq), sep) \o splitAll(Tail(seq), sep)

\* t.replace(/^\[+|\]+$/g, "").replace(/^'+|'+$/g, "").trim()
unwrapTopic(t) ==
  LET a == stripTrailing(stripLeading(t, {"["}), {"]"})
      b == stripTrailing(stripLeading(a, {"'"}), {"'"})
  IN  trim(b)

RECURSIVE unwrapAll(_)
unwrapAll(seq) ==
  IF Len(seq) = 0 THEN <<>>
  ELSE LET t == unwrapTopic(Head(seq))
       IN  (IF t = "" THEN <<>> ELSE <<t>>) \o unwrapAll(Tail(seq))

\* Array.from(new Set(xs)): the first occurrence of every value, in order
RECURSIVE dedupe(_, _)
dedupe(seq, seen) ==
  IF Len(seq) = 0 THEN seen
  ELSE dedupe(Tail(seq),
              IF \E i \in 1..Len(seen) : seen[i] = Head(seq)
              THEN seen ELSE Append(seen, Head(seq)))

TopicCap == 12

\* the cleaning without the pass through a Set
cleanTopicListKeepingDuplicates(topics) ==
  IF topics = <<>> \/ topics = << <<>> >> THEN <<>>
  ELSE slice(unwrapAll(trimmedNonEmpty(splitAll(topics[1], ","))), TopicCap)

cleanTopicList(topics) ==
  IF topics = <<>> \/ topics = << <<>> >> THEN <<>>
  ELSE slice(dedupe(unwrapAll(trimmedNonEmpty(splitAll(topics[1], ","))), <<>>),
             TopicCap)

Ellipsis == "~"

Max(a, b) == IF a > b THEN a ELSE b

\* s.slice(0, end): a negative end counts from the end of s
sliceTo(s, end) ==
  SubSeq(s, 1, IF end < 0 THEN Max(Len(s) + end, 0) ELSE Min(end, Len(s)))

\* t.replace(/\s+/g, " "): every run of white space becomes one space
RECURSIVE collapseWhiteSpace(_)
collapseWhiteSpace(s) ==
  IF s = "" THEN ""
  ELSE IF Char(s, 1) \in WhiteSpace
       THEN " " \o collapseWhiteSpace(trimStart(s))
       ELSE Char(s, 1) \o collapseWhiteSpace(SubSeq(s, 2, Len(s)))

\* the clip that first collapses the white space and trims
clipCollapsing(t0, cap) ==
  LET t == trim(collapseWhiteSpace(t0))
  IN  IF Len(t) <= cap THEN t
      ELSE sliceTo(t, cap - 1) \o Ellipsis

clip(t, cap) ==
  IF Len(t) <= cap THEN t
  ELSE sliceTo(t, cap - 1) \o Ellipsis

EvidenceCap == 900

blockEntry(c, i) ==
  [index    |-> i,
   talk_id  |-> c.talk_id,
   title    |-> c.title,
   speaker  |-> nullish(c.speaker_1, <<"">>)[1],
   topics   |-> cleanTopicList(c.topics),
   evidence |-> clip(c.chunk, EvidenceCap),
   score    |-> c.score]

\* the values interpolated into the block, one entry per candidate
blockEntries(cs) == [i \in 1..Len(cs) |-> blockEntry(cs[i], i)]

DigitChars == "0123456789"

RECURSIVE natToString(_)
natToString(n) ==
  IF n < 10 THEN Char(DigitChars, n + 1)
  ELSE natToString(n \div 10) \o Char(DigitChars, (n % 10) + 1)

\* `${score}` for the score n/100
scoreToString(n) ==
  LET w == n \div 100
      f == n % 100
  IN  IF f = 0 THEN natToString(w)
      ELSE natToString(w) \o "." \o
           (IF f % 10 = 0 THEN natToString(f \div 10)
            ELSE IF f < 10 THEN "0" \o natToString(f)
            ELSE natToString(f))

RECURSIVE jsonEscape(_)
jsonEscape(s) ==
  IF s = "" THEN ""
  ELSE LET c == Char(s, 1)
       IN  (IF c = "\"" THEN "\\\""
            ELSE IF c = "\\" THEN "\\\\"
            ELSE IF c = "\n" THEN "\\n"
            ELSE c) \o jsonEscape(SubSeq(s, 2, Len(s)))

\* JSON.stringify of an array of strings
jsonStringify(l) ==
  "[" \o join([i \in 1..Len(l) |-> "\"" \o jsonEscape(l[i]) \o "\""], ",") \o "]"

renderEntry(e) ==
  join(<<"[#" \o natToString(e.index) \o "] talk_id=" \o e.talk_id,
         "TITLE: " \o e.title,
         "SPEAKER: " \o e.speaker,
         "TOPICS: " \o jsonStringify(e.topics),
         "EVIDENCE:\n\"" \o e.evidence \o "\"",
         "SCORE: " \o scoreToString(e.score)>>, "\n")

buildCandidatesBlock(cs) ==
  LET es == blockEntries(cs)
  IN  join([i \in 1..Len(es) |-> renderEntry(es[i])], "\n\n")

(***************************************************************************)
(* answerQuestion: the public context and the user prompt                  *)
(***************************************************************************)
\* a context cut down to as many entries as there are candidates at most
publicContextCapped(ms) ==
  [i \in 1..Min(CandidateCap, Len(ms)) |->
     [talk_id |-> ms[i].talk_id, title |-> ms[i].title, chunk |-> ms[i].chunk,
      score |-> ms[i].score]]

publicContext(ms) ==
  [i \in 1..Len(ms) |->
     [talk_id |-> ms[i].talk_id, title |-> ms[i].title, chunk |-> ms[i].chunk,
      score |-> ms[i].score]]

contextEntry(c) ==
  "TITLE: " \o c.title \o "\nSPEAKER: " \o nullish(c.speaker_1, <<"">>)[1]
    \o "\nEVIDENCE:\n" \o c.chunk

composeUserPrompt(m, q, cs) ==
  IF m = "title_list" THEN
    join(<<"Choose exactly THREE talk titles from the CANDIDATES that best match the QUESTION.",
           "Output only the three titles, one per line, with no extra text.",
           "",
           "Rules:",
           "- You MUST copy titles exactly as written in the CANDIDATES.",
           "- If you cannot find exactly 3 valid titles, respond exactly:\n" \o FALLBACK,
           "",
           "QUESTION:\n" \o q,
           "",
           "CANDIDATES:\n" \o buildCandidatesBlock(cs)>>, "\n")
  ELSE IF m = "title_speaker" THEN
    join(<<"Choose exactly ONE talk from the CANDIDATES that best matches the QUESTION.",
           "Output format (exactly):",
           "Title: <title>",
           "Speaker: <speaker>",
           "",
           "How to decide a match:",
           "- A candidate is a valid match if its TITLE, TOPICS, or EVIDENCE explicitly mentions the key theme or close synonyms.",
           "",
           "Rules:",
           "- You MUST copy the Title and Speaker exactly as written in the CANDIDATES.",
           "- If NONE of the candidates contain the theme (or close synonyms), respond exactly:\n" \o FALLBACK,
           "",
           "QUESTION:\n" \o q,
           "",
           "CANDIDATES:\n" \o buildCandidatesBlock(cs)>>, "\n")
  ELSE
    LET contextBlock ==
          join([i \in 1..Len(cs) |-> contextEntry(cs[i])], "\n\n---\n\n")
    IN  join(<<"Answer the question using only the CONTEXT below.",
               "If the answer is not explicitly supported by the context, say: " \o FALLBACK,
               "",
               "QUESTION:\n" \o q,
               "",
               "CONTEXT:\n" \o (IF contextBlock = "" THEN "(none)" ELSE contextBlock)>>,
             "\n")

(***************************************************************************)
(* The guardrails                                                          *)
(***************************************************************************)
titlesOf(cs) == {cs[i].title : i \in 1..Len(cs)}

speakersOf(cs) == {cs[i].speaker_1[1] : i \in {j \in 1..Len(cs) : cs[j].speaker_1 # <<>>}}

\* a check that is content with a known title alone
validateTitleOnly(resp, cs) ==
  \E t \in {x \in titlesOf(cs) : x # ""} : includes(resp, t)

\* a check that asks for nothing when there is nothing to compare with
validateTitleSpeakerIfAny(resp, cs) ==
  LET titles   == {t \in titlesOf(cs) : t # ""}
      speakers == {s \in speakersOf(cs) : s # ""}
      hasTitle   == \E t \in titles : includes(resp, t)
      hasSpeaker == \E s \in speakers : includes(resp, s)
  IN  (titles = {} \/ hasTitle) /\ (speakers = {} \/ hasSpeaker)

validateTitleSpeakerResponse(resp, cs) ==
  LET titles   == {t \in titlesOf(cs) : t # ""}
      speakers == {s \in speakersOf(cs) : s # ""}
      hasTitle   == \E t \in titles : includes(resp, t)
      hasSpeaker == \E s \in speakers : includes(resp, s)
  IN  hasTitle /\ hasSpeaker

\* the character class [\-\*\d\.\)\s]
BulletChars ==
  {"-", "*", ".", ")"} \cup {"0", "1", "2", "3", "4", "5", "6", "7", "8", "9"}
    \cup WhiteSpace

cleanLine(line) == trim(stripLeading(line, BulletChars))

\* a check that accepts n lines or fewer
validateTitleListAtMost(resp, cs, n) ==
  LET lines == trimmedNonEmpty(split(resp, "\n"))
  IN  IF Len(lines) > n THEN FALSE
      ELSE \A i \in 1..Len(lines) : cleanLine(lines[i]) \in titlesOf(cs)

\* a check whose early return on a wrong number of lines says true
validateTitleListUnlessCounted(resp, cs, n) ==
  LET lines == trimmedNonEmpty(split(resp, "\n"))
  IN  IF Len(lines) # n THEN TRUE
      ELSE \A i \in 1..Len(lines) : cleanLine(lines[i]) \in titlesOf(cs)

validateTitleListResponse(resp, cs, n) ==
  LET lines == trimmedNonEmpty(split(resp, "\n"))
  IN  IF Len(lines) # n THEN FALSE
      ELSE \A i \in 1..Len(lines) : cleanLine(lines[i]) \in titlesOf(cs)

\* answerQuestion, the hard guardrails applied to the trimmed model text
guardrail(m, resp, cs) ==
  LET r1 == IF m = "title_speaker" /\ ~validateTitleSpeakerResponse(resp, cs)
            THEN FALLBACK ELSE resp
  IN  IF m = "title_list" /\ ~validateTitleListResponse(r1, cs, TitleCount)
      THEN FALLBACK ELSE r1

(***************************************************************************)
(* Inputs                                                                  *)
(***************************************************************************)
SeqsUpTo(S, n) == UNION {[1..k -> S] : k \in 0..n}

Injective(seq) == \A i, j \in 1..Len(seq) : seq[i] = seq[j] => i = j

Item(score, tid, id, title, sp, chunk, text, topics) ==
  [score |-> score,
   metadata |-> [talk_id |-> tid, id |-> id, title |-> title, speaker_1 |-> sp,
                 chunk |-> chunk, text |-> text, topics |-> topics]]

TopicsString == <<"str", "a, b, b", <<>>>>
TopicsList   == <<"list", "", <<"a", " b ">>>>
TopicsCsv    == <<"str", "['x', 'y'] ,, x", <<>>>>

\* what the vector index may return for one stored vector
IndexItems ==
  { Item(<<90>>, <<"t1">>, <<>>, <<"Talk A">>, <<"Alice">>, <<"a1">>, <<>>, TopicsString),
    Item(<<90>>, <<"t2">>, <<>>, <<"Talk B">>, <<"Bob">>, <<"b1">>, <<>>, TopicsList),
    Item(<<50>>, <<"t1">>, <<>>, <<"Talk A">>, <<"Alice">>, <<"a2">>, <<>>, <<>>),
    Item(<<50>>, <<"t2">>, <<"x">>, <<"Talk B">>, <<"">>, <<"b2">>, <<"zz">>, TopicsCsv),
    Item(<<12>>, <<>>, <<"t3">>, <<"3 Ideas">>, <<>>, <<>>, <<"c1">>, <<>>),
    Item(<<11>>, <<"t2">>, <<>>, <<"Talk B">>, <<"Bob">>, <<"b3">>, <<>>, TopicsString),
    Item(<<>>, <<"t1">>, <<>>, <<"Talk A">>, <<"Alice">>, <<"a3">>, <<>>, <<>>),
    Item(<<50>>, <<"t3">>, <<>>, <<>>, <<>>, <<"c2">>, <<>>, TopicsList),
    Item(<<50>>, <<"">>, <<"t3">>, <<"3 Ideas">>, <<>>, <<"c3">>, <<>>, <<>>) }

MaxItems == 3

IndexReplies == SeqsUpTo(IndexItems, MaxItems)

Match(tid, title, sp, topics, chunk, score) ==
  [talk_id |-> tid, title |-> title, speaker_1 |-> sp, topics |-> topics,
   chunk |-> chunk, score |-> score]

\* matches as retrieve builds them: identifier, title and chunk non-empty,
\* score at least min_score
MatchPool ==
  { Match("t1", "Talk A", <<"Alice">>, << <<"x">> >>, "a1", 90),
    Match("t1", "Talk A (live)", <<>>, <<>>, "a2", 50),
    Match("t1", "Talk A", <<"Alice">>, << <<"y">> >>, "a3", 30),
    Match("t2", "Talk B", <<"Bob">>, <<>>, "b1", 70),
    Match("t2", "Talk B (cut)", <<"Rob">>, << <<"z">> >>, "b2", 70),
    Match("t3", "3 Ideas", <<>>, <<>>, "c1", 40) }

MaxMatches == 4
MaxCap == 2

MatchLists == {l \in SeqsUpTo(MatchPool, MaxMatches) : Injective(l)}

(***************************************************************************)
(* retrieve on every index reply, followed by the aggregation and the      *)
(* candidate block of answerQuestion                                       *)
(***************************************************************************)
InitRetrieve ==
  /\ pc = "retrieve"
  /\ \E r \in IndexReplies :
       /\ qres = r
       /\ question = ""
       /\ modeRaw = <<>>
       /\ requestedMode = <<>>
       /\ matches = <<>>
       /\ maxTalks = CandidateCap
       /\ cands = <<>>
       /\ mode = "general"
       /\ block = <<>>
       /\ userPrompt = ""
       /\ rawAnswer = ""
       /\ response = ""
       /\ status = 0
       /\ env = EnvNames
       /\ calls = <<>>
       /\ context = <<>>
       /\ error = ""
       /\ clipText = ""
       /\ clipMax = 0
       /\ clipped = ""
       /\ reqs = <<>>

RetrieveStep ==
  /\ pc = "retrieve"
  /\ matches' = retrieveMatches(qres)
  /\ pc' = "aggregate"
  /\ UNCHANGED <<aside, env, calls, context, error, question, modeRaw, requestedMode, qres, maxTalks, cands, mode, block,
                 userPrompt, rawAnswer, response, status>>

ComposeStep ==
  /\ pc = "aggregate"
  /\ cands' = buildCandidates(matches, maxTalks)
  /\ block' = blockEntries(cands')
  /\ pc' = "composed"
  /\ UNCHANGED <<aside, env, calls, context, error, question, modeRaw, requestedMode, qres, matches, maxTalks, mode,
                 userPrompt, rawAnswer, response, status>>

NextRetrieve == RetrieveStep \/ ComposeStep

SpecRetrieve == InitRetrieve /\ [][NextRetrieve]_vars

(***************************************************************************)
(* buildCandidates on every match list, in any order, and every cap        *)
(***************************************************************************)
InitCand ==
  /\ pc = "group"
  /\ \E l \in MatchLists, cap \in 0..MaxCap :
       /\ matches = l
       /\ maxTalks = cap
       /\ question = ""
       /\ modeRaw = <<>>
       /\ requestedMode = <<>>
       /\ qres = <<>>
       /\ cands = <<>>
       /\ mode = "general"
       /\ block = <<>>
       /\ userPrompt = ""
       /\ rawAnswer = ""
       /\ response = ""
       /\ status = 0
       /\ env = EnvNames
       /\ calls = <<>>
       /\ context = <<>>
       /\ error = ""
       /\ clipText = ""
       /\ clipMax = 0
       /\ clipped = ""
       /\ reqs = <<>>

AggregateStep ==
  /\ pc = "group"
  /\ cands' = buildCandidates(matches, maxTalks)
  /\ pc' = "ranked"
  /\ UNCHANGED <<aside, env, calls, context, error, question, modeRaw, requestedMode, qres, matches, maxTalks, mode, block,
                 userPrompt, rawAnswer, response, status>>

NextCand == AggregateStep

SpecCand == InitCand /\ [][NextCand]_vars

(***************************************************************************)
(* Properties of retrieve                                                  *)
(***************************************************************************)
SortedByScore(seq) == \A i \in 1..(Len(seq) - 1) : seq[i].score >= seq[i + 1].score

withScore(seq, s) == SelectSeq(seq, LAMBDA m : m.score = s)

recordsOf(seq) == {seq[i] : i \in 1..Len(seq)}

\* the records of the output, in the order in which the index returned them
keptInIndexOrder ==
  SelectSeq([k \in 1..Len(qres) |-> toMatch(qres[k])],
            LAMBDA r : r \in recordsOf(matches))

\* C6: the output of retrieve is sorted by non-increasing score, holds no
\* record below the minimum score, and records of equal score keep the
\* relative order they had in the index reply.
C6_RetrieveSortedFilteredStable ==
  pc # "retrieve" =>
    /\ SortedByScore(matches)
    /\ \A i \in 1..Len(matches) : matches[i].score >= min_score
    /\ \A s \in {matches[i].score : i \in 1..Len(matches)} :
         withScore(matches, s) = withScore(keptInIndexOrder, s)

C6_Witness ==
  /\ pc = "aggregate"
  /\ \E i \in 1..(Len(matches) - 1) :
       matches[i].score = matches[i + 1].score /\ matches[i] # matches[i + 1]
  /\ \E k \in 1..Len(qres) : itemScore(qres[k]) < min_score
  /\ \E k \in 1..(Len(qres) - 1) : itemScore(qres[k]) < itemScore(qres[k + 1])

(***************************************************************************)
(* Properties of buildCandidates                                           *)
(***************************************************************************)
talkIds(seq) == {seq[i].talk_id : i \in 1..Len(seq)}

\* C7: the output of buildCandidates holds at most one candidate per
\* document, at most maxTalks candidates, and is sorted by non-increasing
\* score, for every match list and every cap >= 0.
C7_CandidatesUniqueCappedSorted ==
  pc = "ranked" =>
    /\ \A i, j \in 1..Len(cands) : cands[i].talk_id = cands[j].talk_id => i = j
    /\ Len(cands) <= maxTalks
    /\ SortedByScore(cands)

C7_Witness ==
  /\ pc = "ranked"
  /\ maxTalks = 2
  /\ Len(cands) = maxTalks
  /\ Cardinality(talkIds(matches)) > maxTalks
  /\ Len(matches) > Cardinality(talkIds(matches))

bestScore(ms, id) ==
  LET g == groupOf(ms, id)
  IN  CHOOSE s \in {g[i].score : i \in 1..Len(g)} : \A i \in 1..Len(g) : g[i].score <= s

\* C8: for every match list, in any order, the output holds the maxTalks
\* documents with the highest best-match scores: no document is left out
\* while a document whose best score is strictly lower is included.
C8_TopDocumentsKept ==
  pc = "ranked" =>
    /\ Len(cands) = Min(maxTalks, Cardinality(talkIds(matches)))
    /\ \A id \in talkIds(matches) \ talkIds(cands) :
         \A i \in 1..Len(cands) : cands[i].score >= bestScore(matches, id)

firstWith(g, s) ==
  CHOOSE i \in 1..Len(g) : g[i].score = s /\ \A j \in 1..(i - 1) : g[j].score # s

topIndex(g) ==
  firstWith(g, CHOOSE s \in {g[i].score : i \in 1..Len(g)} :
                 \A i \in 1..Len(g) : g[i].score <= s)

topOf(g) == g[topIndex(g)]

restOf(g) == SubSeq(g, 1, topIndex(g) - 1) \o SubSeq(g, topIndex(g) + 1, Len(g))

expectedEvidence(g) ==
  IF Len(g) = 1 THEN topOf(g).chunk
  ELSE topOf(g).chunk \o "\n\n---\n\n" \o topOf(restOf(g)).chunk

thirdAndLower(g) == IF Len(g) <= 2 THEN <<>> ELSE restOf(restOf(g))

\* C9: every candidate carries the title, speaker, topics and score of the
\* highest-scoring match of its document (the first of them in input order
\* when several share that score), and its evidence is the evidence of the
\* two highest-scoring matches of the document, best first, joined by
\* "\n\n---\n\n" (of the only match when there is one); the evidence of the
\* third and lower matches is not in it.
C9_CandidateFromBestMatches ==
  pc = "ranked" =>
    \A i \in 1..Len(cands) :
      LET g == groupOf(matches, cands[i].talk_id)
      IN  /\ Len(g) > 0
          /\ cands[i].title = topOf(g).title
          /\ cands[i].speaker_1 = topOf(g).speaker_1
          /\ cands[i].topics = topOf(g).topics
          /\ cands[i].score = topOf(g).score
          /\ cands[i].chunk = expectedEvidence(g)
          /\ \A k \in 1..Len(thirdAndLower(g)) :
               ~includes(cands[i].chunk, thirdAndLower(g)[k].chunk)

C9_Witness ==
  /\ pc = "ranked"
  /\ \E i \in 1..Len(cands) :
       LET g == groupOf(matches, cands[i].talk_id)
       IN  /\ Len(g) >= 3
           /\ topIndex(g) # 1
           /\ cands[i].chunk = "a1\n\n---\n\na2"

(***************************************************************************)
(* Topics                                                                  *)
(***************************************************************************)
normalTopics(l) ==
  /\ \A i, j \in 1..Len(l) : l[i] = l[j] => i = j
  /\ \A i \in 1..Len(l) : l[i] # "" /\ l[i] = trim(l[i])

\* C10 as stated: the Match produced by retrieve carries a deduplicated
\* list of trimmed non-empty topics, <<"a", "b">> for the string "a, b, b"
\* and for the list <<"a", " b ">>.
C10_MatchTopicsNormalized ==
  pc # "retrieve" =>
    \A i \in 1..Len(matches) :
      matches[i].topics # <<>> => normalTopics(matches[i].topics[1])

\* C10 amended: the Match carries the pieces of a topics string trimmed and
\* non-empty, duplicates kept, and a topics list unchanged; the topics
\* rendered for a candidate (cleanTopicList) are deduplicated, trimmed and
\* non-empty, <<"a", "b">> for both inputs.
C10_RenderedTopicsNormalized ==
  /\ pc # "retrieve" =>
       \A k \in 1..Len(qres) :
         keepItem(qres[k]) =>
           \E i \in 1..Len(matches) :
             /\ matches[i] = toMatch(qres[k])
             /\ qres[k].metadata.topics = TopicsString =>
                  matches[i].topics = << <<"a", "b", "b">> >>
             /\ qres[k].metadata.topics = TopicsList =>
                  matches[i].topics = << <<"a", " b ">> >>
  /\ pc = "composed" =>
       /\ Len(block) = Len(cands)
       /\ \A i \in 1..Len(block) :
            /\ normalTopics(block[i].topics)
            /\ cands[i].topics \in {<< <<"a", "b", "b">> >>, << <<"a", " b ">> >>}
                 => block[i].topics = <<"a", "b">>

C10_Witness ==
  /\ pc = "composed"
  /\ \E i, j \in 1..Len(block) :
       /\ cands[i].topics = << <<"a", "b", "b">> >>
       /\ cands[j].topics = << <<"a", " b ">> >>
       /\ block[i].topics = block[j].topics

(***************************************************************************)
(* The mode decision on every question and every mode tag                  *)
(***************************************************************************)
QuestionPieces ==
  {"exactly 3 ", "Exactly THREE ", "exactly 4 ", "Title", "titles", " and ",
   " & ", "speaker", "some "}

SampleQuestions ==
  {"Give me exactly 3 TED talk titles about creativity",
   "List some good titles",
   "Give me the title and speaker for a talk about fear",
   "Please provide title and speaker",
   "Which speaker chose the title?"}

MaxPieces == 3

RECURSIVE concat(_)
concat(seq) == IF Len(seq) = 0 THEN "" ELSE Head(seq) \o concat(Tail(seq))

Questions ==
  {concat(ps) : ps \in SeqsUpTo(QuestionPieces, MaxPieces)} \cup SampleQuestions

\* body.mode: absent, one of the three tags, or some other text
ModeTags == {<<>>, <<"qa">>, <<"title_list">>, <<"title_speaker">>, <<"general">>}

InitMode ==
  /\ pc = "idle"
  /\ question = ""
  /\ modeRaw = <<>>
  /\ requestedMode = <<>>
  /\ qres = <<>>
  /\ matches = <<>>
  /\ maxTalks = CandidateCap
  /\ cands = <<>>
  /\ mode = "general"
  /\ block = <<>>
  /\ userPrompt = ""
  /\ rawAnswer = ""
  /\ response = ""
  /\ status = 0
  /\ env = EnvNames
  /\ calls = <<>>
  /\ context = <<>>
  /\ error = ""
  /\ clipText = ""
  /\ clipMax = 0
  /\ clipped = ""
  /\ reqs = <<>>

\* POST up to the call of answerQuestion
ReceiveStep ==
  /\ pc = "idle"
  /\ \E q \in Questions, m \in ModeTags :
       /\ question' = trim(q)
       /\ modeRaw' = m
       /\ IF question' = ""
          THEN /\ status' = 400
               /\ pc' = "done"
               /\ UNCHANGED requestedMode
          ELSE /\ requestedMode' = routeMode(m)
               /\ pc' = "resolve"
               /\ UNCHANGED status
  /\ UNCHANGED <<aside, env, calls, context, error, qres, matches, maxTalks, cands,
                 mode, block, userPrompt, rawAnswer, response>>

\* answerQuestion, the decision of the mode
ResolveStep ==
  /\ pc = "resolve"
  /\ mode' = resolveMode(question, requestedMode)
  /\ pc' = "resolved"
  /\ UNCHANGED <<aside, env, calls, context, error, question, modeRaw, requestedMode, qres, matches, maxTalks,
                 cands, block, userPrompt, rawAnswer, response, status>>

NextMode == ReceiveStep \/ ResolveStep

SpecMode == InitMode /\ [][NextMode]_vars

\* t occurs in s, letter case ignored in s (t is in lower case)
mentions(s, t) ==
  \E i \in 1..(Len(s) - Len(t) + 1) :
    \A k \in 1..Len(t) : lowerChar(Char(s, i + k - 1)) = Char(t, k)

\* C4: an explicit mode tag is the resolved mode for every question:
\* title_list gives title_list, title_speaker gives title_speaker and qa
\* gives general, whatever the lexical detection says of the question.
C4_ExplicitModeWins ==
  pc = "resolved" =>
    /\ modeRaw = <<"title_list">> => mode = "title_list"
    /\ modeRaw = <<"title_speaker">> => mode = "title_speaker"
    /\ modeRaw = <<"qa">> => mode = "general"

C4_Witness ==
  /\ pc = "resolved"
  /\ question = "Give me exactly 3 TED talk titles about creativity"
  /\ modeRaw = <<"qa">>
  /\ detectMode(question) = "title_list"
  /\ mode = "general"

countCue(q) == mentions(q, "exactly 3") \/ mentions(q, "exactly three")

titleWord(q) == mentions(q, "title") \/ mentions(q, "titles")

combinedPhrase(q) ==
  \/ mentions(q, "title and speaker")
  \/ mentions(q, "title & speaker")
  \/ mentions(q, "provide the title and speaker")
  \/ mentions(q, "provide title and speaker")

\* C5: without an explicit mode the mode is title_list iff the lower-cased
\* question holds an exact-count cue and a title word, otherwise
\* title_speaker iff it holds one of the combined phrases, otherwise general.
C5_LexicalDetection ==
  pc = "resolved" /\ requestedMode = <<>> =>
    /\ mode = "title_list" <=> (countCue(question) /\ titleWord(question))
    /\ mode = "title_speaker" <=>
         (~(countCue(question) /\ titleWord(question)) /\ combinedPhrase(question))
    /\ mode \in {"title_list", "title_speaker", "general"}
    /\ question = "List some good titles" => mode = "general"

C5_Witness ==
  /\ pc = "resolved"
  /\ requestedMode = <<>>
  /\ mentions(question, "title")
  /\ mentions(question, "speaker")
  /\ ~combinedPhrase(question)
  /\ mode = "general"

(***************************************************************************)
(* The guardrails on every model text and candidate list                   *)
(***************************************************************************)
ListLines == {"Talk A", "* 2) Talk B", "(1) Talk A", "Talk Z", "  ", "3 Ideas"}

PairLines ==
  {"Title: Talk A", "Speaker: Alice", "Speaker: Bob", "Title: Talk Z", "by Zed"}

MaxLines == 4

\* what the generation service may return
ModelTexts ==
  {join(ls, "\n") : ls \in SeqsUpTo(ListLines, MaxLines) \cup SeqsUpTo(PairLines, MaxLines)}

it1 == Item(<<90>>, <<"t1">>, <<>>, <<"Talk A">>, <<"Alice">>, <<"a1">>, <<>>, TopicsString)
it2 == Item(<<70>>, <<"t2">>, <<>>, <<"Talk B">>, <<"Bob">>, <<"b1">>, <<>>, TopicsList)
it3 == Item(<<70>>, <<"t2">>, <<>>, <<"Talk B">>, <<"">>, <<"b1">>, <<>>, <<>>)
it4 == Item(<<50>>, <<>>, <<"t3">>, <<"3 Ideas">>, <<>>, <<>>, <<"c1">>, <<>>)

\* candidate lists as answerQuestion builds them from index replies
CandidateLists ==
  {buildCandidates(retrieveMatches(r), CandidateCap) :
     r \in {<<>>, <<it1>>, <<it1, it2>>, <<it1, it3>>, <<it1, it2, it4>>}}

InitGuard ==
  /\ pc = "generate"
  /\ \E cs \in CandidateLists, m \in {"title_list", "title_speaker", "general"} :
       /\ cands = cs
       /\ mode = m
       /\ question = ""
       /\ modeRaw = <<>>
       /\ requestedMode = <<>>
       /\ qres = <<>>
       /\ matches = <<>>
       /\ maxTalks = CandidateCap
       /\ block = <<>>
       /\ userPrompt = ""
       /\ rawAnswer = ""
       /\ response = ""
       /\ status = 0
       /\ env = EnvNames
       /\ calls = <<>>
       /\ context = <<>>
       /\ error = ""
       /\ clipText = ""
       /\ clipMax = 0
       /\ clipped = ""
       /\ reqs = <<>>

\* answerQuestion from the reply of callModel to the return
GuardStep ==
  /\ pc = "generate"
  /\ \E text \in ModelTexts :
       /\ rawAnswer' = trim(text)
       /\ response' = guardrail(mode, rawAnswer', cands)
  /\ status' = 200
  /\ pc' = "done"
  /\ UNCHANGED <<aside, env, calls, context, error, question, modeRaw, requestedMode, qres, matches, maxTalks,
                 cands, mode, block, userPrompt>>

NextGuard == GuardStep

SpecGuard == InitGuard /\ [][NextGuard]_vars

newlines(r) == {i \in 1..Len(r) : Char(r, i) = "\n"}

\* the lines of r as pairs <<first, last>> of positions
lineSpans(r) ==
  LET cuts == {0, Len(r) + 1} \cup newlines(r)
  IN  {<<a + 1, b - 1>> : <<a, b>> \in
         {c \in cuts \X cuts : c[1] < c[2] /\ ~\E x \in cuts : c[1] < x /\ x < c[2]}}

blankSpan(r, sp) == \A i \in sp[1]..sp[2] : Char(r, i) \in WhiteSpace

\* the line is: characters of the class, then the title, then white space
spanIsTitle(r, sp, t, class) ==
  \E p \in sp[1]..sp[2] :
    /\ \A i \in sp[1]..(p - 1) : Char(r, i) \in class
    /\ Char(r, p) \notin class
    /\ p + Len(t) - 1 <= sp[2]
    /\ SubSeq(r, p, p + Len(t) - 1) = t
    /\ \A i \in (p + Len(t))..sp[2] : Char(r, i) \in WhiteSpace

Digits == {"0", "1", "2", "3", "4", "5", "6", "7", "8", "9"}

\* dashes, asterisks, digits, periods, parentheses, white space
ClassWithBothParentheses == {"-", "*", ".", "(", ")"} \cup Digits \cup WhiteSpace

\* the same with the closing parenthesis only
ClassWithClosingParenthesis == {"-", "*", ".", ")"} \cup Digits \cup WhiteSpace

listAccepted(r, cs, class) ==
  LET spans == {sp \in lineSpans(r) : ~blankSpan(r, sp)}
  IN  /\ Cardinality(spans) = 3
      /\ \A sp \in spans : \E t \in titlesOf(cs) : spanIsTitle(r, sp, t, class)

\* C1 as stated: in title_list mode the answer is returned iff it has
\* exactly 3 non-empty trimmed lines and each, stripped of leading dashes,
\* asterisks, digits, periods, parentheses and white space, is a candidate's
\* title; otherwise the refusal sentence is returned.
C1_TitleListGuardrail ==
  pc = "done" /\ mode = "title_list" =>
    response = IF listAccepted(rawAnswer, cands, ClassWithBothParentheses)
               THEN rawAnswer ELSE FALLBACK

\* C1 amended: the same, the stripped characters being dashes, asterisks,
\* digits, periods, closing parentheses and white space; an opening
\* parenthesis is not stripped.
C1_TitleListGuardrailClosing ==
  pc = "done" /\ mode = "title_list" =>
    response = IF listAccepted(rawAnswer, cands, ClassWithClosingParenthesis)
               THEN rawAnswer ELSE FALLBACK

C1_Witness ==
  /\ pc = "done"
  /\ mode = "title_list"
  /\ titlesOf(cands) = {"Talk A", "Talk B"}
  /\ rawAnswer = "Talk A\n* 2) Talk B\n  \nTalk A"
  /\ response = rawAnswer

occursIn(s, t) ==
  \E i \in 1..(Len(s) - Len(t) + 1) :
    \A k \in 1..Len(t) : Char(s, i + k - 1) = Char(t, k)

pairAccepted(r, cs) ==
  /\ \E i \in 1..Len(cs) : occursIn(r, cs[i].title)
  /\ \E j \in 1..Len(cs) : cs[j].speaker_1 # <<>> /\ occursIn(r, cs[j].speaker_1[1])

\* C2: in title_speaker mode the answer is returned unchanged iff it
\* contains the title of some candidate and the speaker of some candidate,
\* possibly of two different candidates; otherwise the refusal sentence is
\* returned.
C2_TitleSpeakerGuardrail ==
  pc = "done" /\ mode = "title_speaker" =>
    response = IF pairAccepted(rawAnswer, cands) THEN rawAnswer ELSE FALLBACK

C2_Witness ==
  /\ pc = "done"
  /\ mode = "title_speaker"
  /\ Len(cands) = 2
  /\ cands[1].title = "Talk A" /\ cands[1].speaker_1 = <<"Alice">>
  /\ cands[2].title = "Talk B" /\ cands[2].speaker_1 = <<"Bob">>
  /\ rawAnswer = "Title: Talk A\nSpeaker: Alice"
  /\ response = rawAnswer

TitleUniverse == {"Talk A", "Talk B", "Talk Z", "3 Ideas"}
SpeakerUniverse == {"Alice", "Bob", "Zed"}

\* C3: in the two structured modes the answer returned is the refusal
\* sentence or mentions no title and no speaker outside the candidates.
C3_NoFabricatedTitleOrSpeaker ==
  pc = "done" /\ mode \in {"title_list", "title_speaker"} =>
    \/ response = FALLBACK
    \/ /\ \A t \in TitleUniverse : occursIn(response, t) => t \in titlesOf(cands)
       /\ \A sp \in SpeakerUniverse : occursIn(response, sp) => sp \in speakersOf(cands)

(***************************************************************************)
(* One request: POST of route.ts and answerQuestion, from await to await   *)
(***************************************************************************)
\* body.question: absent or a text
RequestQuestions ==
  {<<>>, <<"  ">>, <<" What is fear? ">>,
   <<"Give me exactly 3 TED talk titles about creativity">>,
   <<"Give me the title and speaker for a talk about fear">>}

itLow == Item(<<11>>, <<"t2">>, <<>>, <<"Talk B">>, <<"Bob">>, <<"b3">>, <<>>, <<>>)
it5 == Item(<<50>>, <<"t1">>, <<>>, <<"Talk A">>, <<"Alice">>, <<"a2">>, <<>>, <<>>)

\* qres?.matches ?? []
\* one more talk than the candidate cap, and three matches of the first talk
talkItem(k, chunk, score) ==
  Item(<<score>>, <<"d" \o natToString(k)>>, <<>>, <<"Talk " \o natToString(k)>>,
       <<>>, <<chunk>>, <<>>, <<>>)

WideReply ==
  [k \in 1..(CandidateCap + 1) |-> talkItem(k, "ev" \o natToString(k), 99 - k)]
    \o <<talkItem(1, "ev1b", 40), talkItem(1, "ev1c", 30)>>

RequestReplies ==
  {<<>>, <<itLow>>, <<it1, it2>>, <<it5, it4, it2, it1>>, WideReply}

RequestTexts ==
  {"", FALLBACK, "Talk A\nTalk B", "Talk A\n* 2) Talk B\nTalk A\n",
   "Title: Talk A\nSpeaker: Alice", "Title: Talk Z\nSpeaker: Zed",
   " Fear is the topic of Talk A. "}

missingEnv(name) == "Missing env var: " \o name

Init ==
  /\ env \in SUBSET EnvNames
  /\ calls = <<>>
  /\ pc = "idle"
  /\ question = ""
  /\ modeRaw = <<>>
  /\ requestedMode = <<>>
  /\ qres = <<>>
  /\ matches = <<>>
  /\ maxTalks = CandidateCap
  /\ cands = <<>>
  /\ context = <<>>
  /\ mode = "general"
  /\ block = <<>>
  /\ userPrompt = ""
  /\ rawAnswer = ""
  /\ response = ""
  /\ status = 0
  /\ error = ""
  /\ clipText = ""
  /\ clipMax = 0
  /\ clipped = ""
  /\ reqs = <<>>

\* a catch that replies without setting the status
FailAsSuccess(msg) ==
  /\ status' = 200
  /\ error' = msg
  /\ pc' = "done"

\* a catch that records the error and lets the request go on
FailAndGoOn(msg) ==
  /\ status' = 500
  /\ error' = msg
  /\ pc' = pc

\* the reply with status 500 and a message
Fail(msg) ==
  /\ status' = 500
  /\ error' = msg
  /\ pc' = "done"

\* POST, answerQuestion, retrieve and embedQuery up to the embeddings call
Post ==
  /\ pc = "idle"
  /\ \E q \in RequestQuestions, m \in ModeTags :
       /\ question' = trim(nullish(q, <<"">>)[1])
       /\ modeRaw' = m
       /\ IF question' = ""
          THEN /\ status' = 400
               /\ error' = "Missing 'question' in JSON body."
               /\ pc' = "done"
               /\ UNCHANGED <<requestedMode, calls>>
          ELSE /\ requestedMode' = routeMode(m)
               /\ IF "LLMOD_API_KEY" \notin env
                  THEN /\ Fail(missingEnv("LLMOD_API_KEY"))
                       /\ UNCHANGED calls
                  ELSE /\ calls' = Append(calls, "embed")
                       /\ pc' = "embedding"
                       /\ UNCHANGED <<status, error>>
  /\ UNCHANGED <<aside, env, qres, matches, maxTalks, cands, context, mode, block,
                 userPrompt, rawAnswer, response>>

\* the embedding arrives; getPineconeIndex and the query of the index
EmbedReply ==
  /\ pc = "embedding"
  /\ IF "PINECONE_API_KEY" \notin env
     THEN Fail(missingEnv("PINECONE_API_KEY")) /\ UNCHANGED calls
     ELSE IF "PINECONE_INDEX" \notin env
     THEN Fail(missingEnv("PINECONE_INDEX")) /\ UNCHANGED calls
     ELSE /\ calls' = Append(calls, "query")
          /\ pc' = "querying"
          /\ UNCHANGED <<status, error>>
  /\ UNCHANGED <<aside, env, question, modeRaw, requestedMode, qres, matches, maxTalks,
                 cands, context, mode, block, userPrompt, rawAnswer, response>>

\* a call to an external service is rejected: POST catches and replies 500
ServiceError ==
  /\ pc \in {"embedding", "querying", "generating"}
  /\ Fail("service error")
  /\ UNCHANGED <<aside, env, calls, question, modeRaw, requestedMode, qres, matches,
                 maxTalks, cands, context, mode, block, userPrompt, rawAnswer,
                 response>>

\* the index replies: the rest of retrieve, then answerQuestion up to the
\* chat completion call of callModel
QueryReply ==
  /\ pc = "querying"
  /\ \E r \in RequestReplies :
       /\ qres' = r
       /\ matches' = retrieveMatches(r)
  /\ cands' = buildCandidates(matches', maxTalks)
  /\ context' = publicContext(matches')
  /\ mode' = resolveMode(question, requestedMode)
  /\ block' = blockEntries(cands')
  /\ userPrompt' = composeUserPrompt(mode', question, cands')
  /\ IF "LLMOD_API_KEY" \notin env
     THEN Fail(missingEnv("LLMOD_API_KEY")) /\ UNCHANGED calls
     ELSE /\ calls' = Append(calls, "generate")
          /\ pc' = "generating"
          /\ UNCHANGED <<status, error>>
  /\ UNCHANGED <<aside, env, question, modeRaw, requestedMode, maxTalks, rawAnswer,
                 response>>

\* the completion arrives: the guardrails and the reply
GenerateReply ==
  /\ pc = "generating"
  /\ \E text \in RequestTexts :
       /\ rawAnswer' = trim(text)
       /\ response' = guardrail(mode, rawAnswer', cands)
  /\ status' = 200
  /\ pc' = "done"
  /\ UNCHANGED <<aside, env, calls, question, modeRaw, requestedMode, qres, matches,
                 maxTalks, cands, context, mode, block, userPrompt, error>>

Next == Post \/ EmbedReply \/ ServiceError \/ QueryReply \/ GenerateReply

Spec == Init /\ [][Next]_vars


\* ---------------------------------------------------------------------
\* clip on its own: every text over a small alphabet against every cap
\* ---------------------------------------------------------------------

ClipAlphabet == {"a", "b", " "}
MaxTextLen == 4
MaxClip == 3

RECURSIVE textsOfLen(_)
textsOfLen(n) ==
  IF n = 0 THEN {""}
  ELSE {t \o c : t \in textsOfLen(n - 1), c \in ClipAlphabet}

ClipTexts == UNION {textsOfLen(n) : n \in 0..MaxTextLen}

\* everything of the request, which clip leaves alone
requestVars == <<env, calls, question, modeRaw, requestedMode, qres, matches,
                 maxTalks, cands, context, mode, block, userPrompt,
                 rawAnswer, response, status, error, reqs>>

InitClip ==
  /\ env = EnvNames
  /\ calls = <<>>
  /\ pc = "clip"
  /\ question = ""
  /\ modeRaw = <<>>
  /\ requestedMode = <<>>
  /\ qres = <<>>
  /\ matches = <<>>
  /\ maxTalks = CandidateCap
  /\ cands = <<>>
  /\ context = <<>>
  /\ mode = ""
  /\ block = ""
  /\ userPrompt = ""
  /\ rawAnswer = ""
  /\ response = ""
  /\ status = 0
  /\ error = ""
  /\ clipText \in ClipTexts
  /\ clipMax \in 0..MaxClip
  /\ clipped = ""
  /\ reqs = <<>>

ClipStep ==
  /\ pc = "clip"
  /\ clipped' = clip(clipText, clipMax)
  /\ pc' = "clipped"
  /\ UNCHANGED <<requestVars, clipText, clipMax>>

NextClip == ClipStep

SpecClip == InitClip /\ [][NextClip]_vars

\* C11 as stated: a text longer than the cap comes back as its first cap
\* characters with the truncation marker appended, and a text at or under the
\* cap comes back unchanged.
C11_ClipKeepsCapCharacters ==
  pc = "clipped" =>
    IF Len(clipText) > clipMax
    THEN clipped = SubSeq(clipText, 1, clipMax) \o Ellipsis
    ELSE clipped = clipText

\* C11 as the code has it: a text at or under the cap comes back unchanged; a
\* text longer than a cap of at least one comes back as its first cap - 1
\* characters with the truncation marker appended, cap characters in all; a
\* text longer than a cap of zero loses its last character only and gains the
\* marker.
C11_ClipFitsTheCap ==
  pc = "clipped" =>
    /\ Len(clipText) <= clipMax => clipped = clipText
    /\ (Len(clipText) > clipMax /\ clipMax >= 1) =>
         /\ clipped = SubSeq(clipText, 1, clipMax - 1) \o Ellipsis
         /\ Len(clipped) = clipMax
    /\ (Len(clipText) > clipMax /\ clipMax = 0) =>
         clipped = SubSeq(clipText, 1, Len(clipText) - 1) \o Ellipsis

C11_Witness ==
  /\ pc = "clipped"
  /\ clipText = "a b "
  /\ clipMax = 3
  /\ clipped = "a " \o Ellipsis



\* C12: applying the guardrail to its own output changes nothing, for every
\* mode, answer and candidate list: an accepted answer is accepted again and
\* comes back as it is, and the refusal sentence comes back as the refusal
\* sentence; as a title_list answer the refusal sentence is always rejected,
\* being one line and not three.
C12_GuardrailIdempotent ==
  pc = "done" =>
    /\ response = guardrail(mode, rawAnswer, cands)
    /\ guardrail(mode, response, cands) = response
    /\ (mode = "title_list" /\ response # FALLBACK) =>
         validateTitleListResponse(response, cands, TitleCount)
    /\ (mode = "title_speaker" /\ response # FALLBACK) =>
         validateTitleSpeakerResponse(response, cands)
    /\ mode = "title_list" =>
         /\ Len(split(FALLBACK, "\n")) = 1
         /\ ~validateTitleListResponse(FALLBACK, cands, TitleCount)
    /\ mode = "general" => response = rawAnswer

C12_Witness ==
  /\ pc = "done"
  /\ mode = "title_list"
  /\ titlesOf(cands) = {"Talk A", "Talk B"}
  /\ rawAnswer = "Talk A\nTalk Z\nTalk A"
  /\ response = FALLBACK
  /\ guardrail(mode, response, cands) = FALLBACK



\* the evidence of match i reaches the user prompt
evidenceInPrompt(i) == includes(userPrompt, matches[i].chunk)

\* C13: the context returned with an answer has one entry for each filtered
\* match of retrieve, in the retriever's order, with that match's own
\* document id, title, unmerged evidence and score; it is never cut down to
\* the candidate set, while the user prompt given to the model is built from
\* the candidate set only.
C13_ContextIsEveryMatch ==
  "generate" \in {calls[k] : k \in 1..Len(calls)} =>
    /\ Len(context) = Len(matches)
    /\ \A i \in 1..Len(matches) :
         /\ context[i].talk_id = matches[i].talk_id
         /\ context[i].title = matches[i].title
         /\ context[i].chunk = matches[i].chunk
         /\ context[i].score = matches[i].score
         /\ DOMAIN context[i] = {"talk_id", "title", "chunk", "score"}
    /\ SortedByScore(context)
    /\ \A i \in 1..Len(matches) :
         evidenceInPrompt(i) =>
           \E j \in 1..Len(cands) :
             /\ cands[j].talk_id = matches[i].talk_id
             /\ includes(cands[j].chunk, matches[i].chunk)
    /\ \A j \in 1..Len(cands) : includes(userPrompt, cands[j].title)

C13_Witness ==
  /\ pc = "done"
  /\ status = 200
  /\ Len(cands) = CandidateCap
  /\ Len(context) = CandidateCap + 3
  /\ context[CandidateCap + 1].chunk = "ev9"
  /\ ~evidenceInPrompt(CandidateCap + 1)
  /\ context[CandidateCap + 3].chunk = "ev1c"
  /\ ~evidenceInPrompt(CandidateCap + 3)
  /\ evidenceInPrompt(1)



MissingQuestion == "Missing 'question' in JSON body."

AllCalls == <<"embed", "query", "generate">>

FailureMessages == {missingEnv(n) : n \in EnvNames} \cup {"service error"}

\* the guardrail of the resolved mode turns the model's text down
rejected ==
  \/ mode = "title_list" /\ ~validateTitleListResponse(rawAnswer, cands, TitleCount)
  \/ mode = "title_speaker" /\ ~validateTitleSpeakerResponse(rawAnswer, cands)

\* C14: a request ends in exactly one of three outcomes: the 400 reply if and
\* only if the question is missing or empty after trimming, and then no stage
\* of the pipeline has run; the 500 reply with a message if and only if a
\* stage failed; the success reply otherwise.  A rejection by the guardrail
\* is a success reply whose answer is the refusal sentence, with the context
\* and the prompt in it.
C14_ThreeOutcomes ==
  pc = "done" =>
    /\ status \in {200, 400, 500}
    /\ status = 400 <=> question = ""
    /\ status = 400 =>
         /\ error = MissingQuestion
         /\ calls = <<>>
         /\ matches = <<>> /\ cands = <<>> /\ context = <<>>
         /\ userPrompt = "" /\ rawAnswer = "" /\ response = ""
    /\ status = 500 <=> error \in FailureMessages
    /\ status = 500 =>
         /\ response = ""
         /\ \A n \in EnvNames : error = missingEnv(n) => n \notin env
         /\ error = "service error" => calls # <<>>
    /\ (question # "" /\ env # EnvNames) => status = 500
    /\ status = 200 <=> (question # "" /\ calls = AllCalls /\ error = "")
    /\ status = 200 =>
         /\ env = EnvNames
         /\ response = IF rejected THEN FALLBACK ELSE rawAnswer
         /\ Len(context) = Len(matches)
         /\ userPrompt # ""

C14_Witness ==
  /\ pc = "done"
  /\ status = 200
  /\ rejected
  /\ rawAnswer = "Talk A\nTalk B"
  /\ response = FALLBACK
  /\ Len(context) = 2
  /\ includes(userPrompt, "CANDIDATES:")



\* the stages reached so far, in the order of their calls
stagesDone(n) == calls = SubSeq(AllCalls, 1, n)

C15_Order ==
  /\ \E n \in 0..Len(AllCalls) : stagesDone(n)
  /\ pc = "idle" => stagesDone(0)
  /\ pc = "embedding" => stagesDone(1)
  /\ pc = "querying" => stagesDone(2)
  /\ pc = "generating" => stagesDone(3)
  /\ Len(calls) < 2 =>
       /\ qres = <<>> /\ matches = <<>> /\ cands = <<>> /\ context = <<>>
       /\ userPrompt = ""
  /\ Len(calls) < 3 => (rawAnswer = "" /\ response = "")
  /\ userPrompt # "" =>
       /\ matches = retrieveMatches(qres)
       /\ cands = buildCandidates(matches, CandidateCap)
       /\ userPrompt = composeUserPrompt(mode, question, cands)
  /\ status = 200 => response = guardrail(mode, rawAnswer, cands)
  /\ error # "" => pc = "done"

C15_Steps ==
  /\ pc = "done" => vars' = vars
  /\ calls' # calls =>
       /\ Len(calls') = Len(calls) + 1
       /\ SubSeq(calls', 1, Len(calls)) = calls
       /\ error' = ""
  /\ status' = 500 => calls' = calls

\* C15: the stages of a request run in one order: the embedding of the
\* question, the query of the index, the aggregation into candidates, the
\* composition of the prompt, the generation, the guardrail.  Each external
\* service is called at most once in a request; when a call fails no later
\* stage runs, nothing is retried, and the request fails.
C15_StagesInOrderOnce == [](C15_Order) /\ [][C15_Steps]_vars

C15_Witness ==
  /\ pc = "done"
  /\ status = 500
  /\ error = "service error"
  /\ calls = <<"embed", "query">>
  /\ matches = <<>>
  /\ userPrompt = ""
  /\ response = ""



\* ---------------------------------------------------------------------
\* Two requests in flight together.  POST and answerQuestion keep what they
\* compute in locals; RAG_CONFIG, FALLBACK and process.env are only read.
\* ---------------------------------------------------------------------

Requests == {1, 2}

ConcQuestions ==
  {<<>>, <<" What is fear? ">>,
   <<"Give me the title and speaker for a talk about fear">>}

ConcModes == {<<>>, <<"title_list">>}

ConcReplies == {<<itLow>>, <<it1, it2>>}

ConcTexts == {"Title: Talk A\nSpeaker: Alice", "Talk A\nTalk B\nTalk A"}

\* the locals of a request that has not started
fresh ==
  [pc |-> "idle", question |-> "", modeRaw |-> <<>>, requestedMode |-> <<>>,
   calls |-> <<>>, qres |-> <<>>, matches |-> <<>>, cands |-> <<>>,
   context |-> <<>>, mode |-> "general", userPrompt |-> "", rawAnswer |-> "",
   response |-> "", status |-> 0, error |-> ""]

\* the locals that the code of request r reads, with the locals of another
\* request's candidates in their place once that request has some: cands
\* kept in a module-level variable
localsSharingCands(r) ==
  LET others == {o \in Requests \ {r} : reqs[o].cands # <<>>}
  IN  IF others = {} THEN reqs[r]
      ELSE [reqs[r] EXCEPT !.cands = reqs[CHOOSE o \in others : TRUE].cands]

\* the locals that the code of request r reads
locals(r) == reqs[r]

\* everything but the requests in flight together
soloVars == <<env, calls, pc, question, modeRaw, requestedMode, qres, matches,
              maxTalks, cands, context, mode, block, userPrompt, rawAnswer,
              response, status, error, clipText, clipMax, clipped>>

InitConc ==
  /\ env \in SUBSET EnvNames
  /\ calls = <<>>
  /\ pc = "serving"
  /\ question = ""
  /\ modeRaw = <<>>
  /\ requestedMode = <<>>
  /\ qres = <<>>
  /\ matches = <<>>
  /\ maxTalks = CandidateCap
  /\ cands = <<>>
  /\ context = <<>>
  /\ mode = "general"
  /\ block = <<>>
  /\ userPrompt = ""
  /\ rawAnswer = ""
  /\ response = ""
  /\ status = 0
  /\ error = ""
  /\ clipText = ""
  /\ clipMax = 0
  /\ clipped = ""
  /\ reqs = [r \in Requests |-> fresh]

\* request r goes on with the locals l
becomes(r, l) ==
  /\ reqs' = [reqs EXCEPT ![r] = l]
  /\ UNCHANGED soloVars

failed(l, msg) == [l EXCEPT !.status = 500, !.error = msg, !.pc = "done"]

\* POST for request r, up to the embeddings call
ConcPost(r) ==
  /\ locals(r).pc = "idle"
  /\ \E q \in ConcQuestions, m \in ConcModes :
       LET asked == [locals(r) EXCEPT !.question = trim(nullish(q, <<"">>)[1]),
                                      !.modeRaw = m]
       IN  IF asked.question = ""
           THEN becomes(r, [asked EXCEPT !.status = 400,
                                         !.error = "Missing 'question' in JSON body.",
                                         !.pc = "done"])
           ELSE LET routed == [asked EXCEPT !.requestedMode = routeMode(m)]
                IN  IF "LLMOD_API_KEY" \notin env
                    THEN becomes(r, failed(routed, missingEnv("LLMOD_API_KEY")))
                    ELSE becomes(r, [routed EXCEPT !.calls = Append(@, "embed"),
                                                   !.pc = "embedding"])

\* the embedding of request r arrives
ConcEmbedReply(r) ==
  /\ locals(r).pc = "embedding"
  /\ IF "PINECONE_API_KEY" \notin env
     THEN becomes(r, failed(locals(r), missingEnv("PINECONE_API_KEY")))
     ELSE IF "PINECONE_INDEX" \notin env
     THEN becomes(r, failed(locals(r), missingEnv("PINECONE_INDEX")))
     ELSE becomes(r, [locals(r) EXCEPT !.calls = Append(@, "query"),
                                       !.pc = "querying"])

\* a call of request r is rejected
ConcServiceError(r) ==
  /\ locals(r).pc \in {"embedding", "querying", "generating"}
  /\ becomes(r, failed(locals(r), "service error"))

\* the index replies to request r
ConcQueryReply(r) ==
  /\ locals(r).pc = "querying"
  /\ \E reply \in ConcReplies :
       LET ms == retrieveMatches(reply)
           cs == buildCandidates(ms, CandidateCap)
           md == resolveMode(locals(r).question, locals(r).requestedMode)
           l  == [locals(r) EXCEPT !.qres = reply, !.matches = ms, !.cands = cs,
                                   !.context = publicContext(ms), !.mode = md,
                                   !.userPrompt =
                                      composeUserPrompt(md, locals(r).question, cs)]
       IN  IF "LLMOD_API_KEY" \notin env
           THEN becomes(r, failed(l, missingEnv("LLMOD_API_KEY")))
           ELSE becomes(r, [l EXCEPT !.calls = Append(@, "generate"),
                                     !.pc = "generating"])

\* the completion of request r arrives
ConcGenerateReply(r) ==
  /\ locals(r).pc = "generating"
  /\ \E text \in ConcTexts :
       becomes(r, [locals(r) EXCEPT
                     !.rawAnswer = trim(text),
                     !.response = guardrail(locals(r).mode, trim(text),
                                            locals(r).cands),
                     !.status = 200,
                     !.pc = "done"])

NextConc ==
  \E r \in Requests :
    \/ ConcPost(r)
    \/ ConcEmbedReply(r)
    \/ ConcServiceError(r)
    \/ ConcQueryReply(r)
    \/ ConcGenerateReply(r)

SpecConc == InitConc /\ [][NextConc]_vars



\* what the locals l hold is what l's own question, mode tag, index reply and
\* model text give
ownResults(l) ==
  /\ l.question = "" => l.calls = <<>>
  /\ Len(l.calls) < 2 =>
       (l.qres = <<>> /\ l.matches = <<>> /\ l.cands = <<>> /\ l.userPrompt = "")
  /\ l.userPrompt # "" =>
       /\ l.requestedMode = routeMode(l.modeRaw)
       /\ l.matches = retrieveMatches(l.qres)
       /\ l.cands = buildCandidates(l.matches, CandidateCap)
       /\ l.context = publicContext(l.matches)
       /\ l.mode = resolveMode(l.question, l.requestedMode)
       /\ l.userPrompt = composeUserPrompt(l.mode, l.question, l.cands)
  /\ l.status = 200 =>
       /\ l.calls = AllCalls
       /\ l.response = guardrail(l.mode, l.rawAnswer, l.cands)
  /\ l.status # 200 => l.response = ""

C16_OwnResults == \A r \in Requests : ownResults(reqs[r])

C16_OneRequestPerStep ==
  /\ env' = env
  /\ \A r \in Requests :
       reqs'[r] # reqs[r] => \A o \in Requests \ {r} : reqs'[o] = reqs[o]

\* C16: requests in flight together share no mutable state: the matches,
\* candidates, resolved mode, prompt and response of each request are what its
\* own question, mode tag, index reply and model text give, whatever the
\* other request does in between, and a step of one request changes nothing
\* of the other.
C16_RequestsIndependent == [](C16_OwnResults) /\ [][C16_OneRequestPerStep]_vars

C16_Witness ==
  /\ reqs[1].status = 200
  /\ reqs[2].status = 200
  /\ reqs[1].mode = "title_speaker"
  /\ reqs[2].mode = "title_speaker"
  /\ reqs[1].rawAnswer = reqs[2].rawAnswer
  /\ Len(reqs[1].cands) = 2
  /\ reqs[2].cands = <<>>
  /\ reqs[1].response = "Title: Talk A\nSpeaker: Alice"
  /\ reqs[2].response = FALLBACK



\* a metadata value that is there and not the empty string
nonEmpty(v) == v # <<>> /\ v # <<"">>

\* the items that C17 says are kept
eligible(m) ==
  /\ m.score # <<>>
  /\ m.score[1] >= min_score
  /\ nonEmpty(m.metadata.talk_id) \/ nonEmpty(m.metadata.id)
  /\ nonEmpty(m.metadata.title)
  /\ nonEmpty(m.metadata.chunk) \/ nonEmpty(m.metadata.text)

\* C17: the output of retrieve has exactly one record for each item of the
\* index reply that has a numeric score of at least the minimum, a non-empty
\* document id under talk_id or id, a non-empty title and a non-empty evidence
\* text under chunk or text; every other item is dropped silently.
C17_EveryWellFormedItemKept ==
  pc # "retrieve" =>
    /\ Len(matches) = Cardinality({k \in 1..Len(qres) : eligible(qres[k])})
    /\ \A k \in 1..Len(qres) :
         eligible(qres[k]) =>
           \E i \in 1..Len(matches) :
             /\ matches[i].score = qres[k].score[1]
             /\ matches[i].title = qres[k].metadata.title[1]
             /\ <<matches[i].talk_id>> \in {qres[k].metadata.talk_id, qres[k].metadata.id}
             /\ <<matches[i].chunk>> \in {qres[k].metadata.chunk, qres[k].metadata.text}

\* C18: when a required credential is missing the request fails before any
\* call to an external service has been made for it, and nothing is retried.
C18_NoCallWithoutCredentials ==
  (question # "" /\ env # EnvNames) =>
    /\ calls = <<>>
    /\ pc = "done" => (status = 500 /\ \E n \in EnvNames \ env : error = missingEnv(n))

WhiteSpaceRun(t) ==
  \E i \in 1..(Len(t) - 1) : Char(t, i) \in WhiteSpace /\ Char(t, i + 1) \in WhiteSpace

\* C19: in the candidate block the evidence of each candidate has its runs
\* of white space collapsed to one space before it is clipped, so no rendered
\* evidence has a newline or two white-space characters in a row.
C19_EvidenceCollapsed ==
  pc = "composed" =>
    \A i \in 1..Len(block) :
      /\ ~includes(block[i].evidence, "\n")
      /\ ~WhiteSpaceRun(block[i].evidence)

\* the answer is three lines, each of them a candidate title as it is written
verbatimThree ==
  LET ls == split(rawAnswer, "\n")
  IN  Len(ls) = TitleCount /\ \A i \in 1..Len(ls) : ls[i] \in titlesOf(cands)

\* C20: in title_list mode an answer of three lines, each of them a candidate
\* title verbatim, is accepted, whatever characters the titles begin with.
C20_VerbatimTitlesAccepted ==
  (pc = "done" /\ mode = "title_list" /\ verbatimThree) => response = rawAnswer



\* the titles that the lines of the answer name, bullets and numbers stripped
namedTitles ==
  LET ls == trimmedNonEmpty(split(response, "\n"))
  IN  [i \in 1..Len(ls) |-> cleanLine(ls[i])]

\* C21: in title_list mode an answer other than the refusal sentence names
\* three distinct candidates: an answer with the same title on two or three
\* of its lines is rejected, so with fewer than three distinct candidate
\* titles the answer is always the refusal sentence.
C21_ThreeDistinctTitles ==
  (pc = "done" /\ mode = "title_list") =>
    /\ response # FALLBACK =>
         /\ Len(namedTitles) = TitleCount
         /\ Injective(namedTitles)
    /\ Cardinality(titlesOf(cands)) < TitleCount => response = FALLBACK

\* C22: with no match at or above the minimum score the candidate list is
\* empty; a request in title_list or title_speaker mode still calls the
\* generation service once and then returns the refusal sentence whatever the
\* model's text, with an empty context; in general mode the model's text is
\* returned as the generation stage gave it.
C22_NoCandidates ==
  (matches = <<>> /\ "query" \in {calls[k] : k \in 1..Len(calls)}) =>
    /\ cands = <<>>
    /\ context = <<>>
    /\ (pc = "done" /\ error = "") =>
         /\ status = 200
         /\ calls = AllCalls
         /\ mode \in {"title_list", "title_speaker"} => response = FALLBACK
         /\ mode = "general" => response = rawAnswer

C22_Witness ==
  /\ pc = "done"
  /\ status = 200
  /\ Len(qres) = 1
  /\ itemScore(qres[1]) < min_score
  /\ matches = <<>>
  /\ context = <<>>
  /\ mode = "title_speaker"
  /\ rawAnswer = "Title: Talk A\nSpeaker: Alice"
  /\ response = FALLBACK
  /\ calls = AllCalls


====
